---- MODULE Spec2Model ----
(***************************************************************************)
(* Task-timer / reward-ledger engine and payout-request state machine of   *)
(* the BitcoRise earning bot.  The repository ships several variants of    *)
(* the same bot; the variable `variant` says which one is running:         *)
(*   "main"   - src/bot_complete_vps.py, lines 421-1259 (main (1).py)      *)
(*   "simple" - src/bot.py                                                 *)
(*   "api"    - src/unnamed/part_000 (bot (11).py, REST backend)           *)
(* Every handler is one atomic action: the Application objects are built   *)
(* without concurrent_updates, so python-telegram-bot processes one update *)
(* to completion before it takes the next.                                 *)
(* Money is counted in whole units of the smallest reward.                 *)
(***************************************************************************)
EXTENDS Integers, Sequences, FiniteSets, TLC

VARIABLES
    variant,          \* which bot program of the repository is running
    now,              \* the clock: time.time() / datetime.now(), in seconds
    users,            \* users: user id -> user record
    user_tasks,       \* user_tasks / active_tasks: <<uid, task key>> -> start time
    payout_requests,  \* payout_requests: request id -> request record
    withdrawals,      \* withdrawals list (simple bot)
    user_data,        \* context.user_data per user: payout method/amount or NoData
    disk,             \* data.json: the last snapshot written by save_data
    claimed,          \* history: number of task rewards granted to each user
    batch,            \* claim calls of one (user, task) waiting in the update queue
    granted           \* history: referral bonuses paid for /start calls of each user

vars == <<variant, now, users, user_tasks, payout_requests, withdrawals,
          user_data, disk, claimed, batch,
          granted>>

(***************************************************************************)
(* Bounds of the model.                                                    *)
(***************************************************************************)
MaxTime == 2
MaxEarned == 2

(***************************************************************************)
(* Inputs explored.  User 1 works on tasks, refers and asks for payouts;    *)
(* user 2 joins and is referred.                                           *)
(***************************************************************************)
UserIds == {1, 2}
Referrers == {1}
TaskUsers == {1}
PayoutUsers == {1}
ADMIN_ID == 0
Senders == {ADMIN_ID, 1}
Addresses == {"", "a@b", "a@b.c"}
Reasons == {"bad address"}
Suffixes == {1000}
UnknownId == <<0, 999>>
MaxRequests == Cardinality(UserIds)

(***************************************************************************)
(* Configuration (config.json) and fixed values.  The clock counts ticks,   *)
(* Hz ticks to the second (time.time() is a float); a task wait is a       *)
(* number of seconds and one day lasts DayLen ticks.                       *)
(***************************************************************************)
Hz == 2
DayLen == 2
DAILY_LIMIT == 1
BONUS_REFERRAL == 1
MIN_WITHDRAW == 2
FaucetpayMin == 1
PayeerMin == 2
MinAddressLen == 5
None == -1

TaskKeys == {"like"}
TASKS == [like |-> [reward |-> 1, wait |-> 1],
          watch |-> [reward |-> 1, wait |-> 1],
          retired |-> [reward |-> 1, wait |-> 1]]
Methods == {"faucetpay"}
PAYOUT_CONFIG == [faucetpay |-> FaucetpayMin, payeer |-> PayeerMin]

EmptyMap == [x \in {} |-> 0]
NoData == [payout_method |-> "", payout_amount |-> None]
NoBatch ==
    [uid |-> None, task_key |-> "", issued |-> 0, pending |-> 0,
     credited |-> 0, others |-> {}]

Date(t) == t \div DayLen

\* required_wait of a task, in ticks.
required_wait(task_key) == TASKS[task_key].wait * Hz

\* int(seconds) of a non-negative time span given in ticks.
int(ticks) == ticks \div Hz

Put(f, k, v) == [x \in DOMAIN f \cup {k} |-> IF x = k THEN v ELSE f[x]]
Drop(f, k) == [x \in DOMAIN f \ {k} |-> f[x]]

(***************************************************************************)
(* main (1).py: persistence and ledger helpers.                            *)
(***************************************************************************)
Snapshot(us, ws, prs) ==
    [users |-> us, withdrawals |-> ws, payout_requests |-> prs,
     user_tasks |-> EmptyMap]

NewUser(t) ==
    [balance |-> 0, total_earned |-> 0, tasks_completed |-> 0, referrals |-> 0,
     daily_earned |-> 0, last_activity |-> t, joined |-> t]

\* Mutant: the record is written even when the user is known.
get_user_overwrites(us, uid) ==
    Put(us, uid, NewUser(now))

\* get_user: the users map after the lazy upsert.
get_user(us, uid) ==
    IF uid \in DOMAIN us THEN us ELSE Put(us, uid, NewUser(now))

\* get_user saves only when it creates the record.
get_user_disk(us, uid, d) ==
    IF uid \in DOMAIN us THEN d
    ELSE Snapshot(get_user(us, uid), withdrawals, payout_requests)

\* can_earn_today: the users map after the in-memory daily reset ...
can_earn_today_users(us, uid) ==
    IF Date(us[uid].last_activity) < Date(now)
    THEN [us EXCEPT ![uid].daily_earned = 0]
    ELSE us

\* ... and its answer.
can_earn_today(us, uid) ==
    can_earn_today_users(us, uid)[uid].daily_earned < DAILY_LIMIT

add_earnings(us, uid, amount) ==
    [us EXCEPT ![uid].balance = @ + amount,
               ![uid].total_earned = @ + amount,
               ![uid].daily_earned = @ + amount,
               ![uid].tasks_completed = @ + 1,
               ![uid].last_activity = now]

\* Mutant: the elapsed time is not compared with the wait.
is_task_completed_no_wait(uid, task_key) ==
    <<uid, task_key>> \in DOMAIN user_tasks

is_task_completed(uid, task_key) ==
    /\ <<uid, task_key>> \in DOMAIN user_tasks
    /\ now - user_tasks[<<uid, task_key>>] >= required_wait(task_key)

Max(a, b) == IF a >= b THEN a ELSE b

get_remaining_time(uid, task_key) ==
    IF <<uid, task_key>> \notin DOMAIN user_tasks THEN 0
    ELSE int(Max(0, required_wait(task_key)
                       - (now - user_tasks[<<uid, task_key>>])))

get_user_pending_requests(prs, uid) ==
    {id \in DOMAIN prs : prs[id].user_id = uid /\ prs[id].status = "pending"}


RECURSIVE SumEarned(_, _)
SumEarned(us, S) ==
    IF S = {} THEN 0
    ELSE LET u == CHOOSE x \in S : TRUE
         IN  us[u].total_earned + SumEarned(us, S \ {u})
TotalEarned(us) == SumEarned(us, DOMAIN us)

\* f"REQ_{int(time.time())}_{random.randint(1000, 9999)}"
generate_request_id(suffix) == <<int(now), suffix>>

\* create_payout_request: the request table after the insert (a plain
\* dictionary store: an id already present is overwritten).
create_payout_request(prs, request_id, uid, amount, method, address) ==
    Put(prs, request_id,
        [user_id |-> uid, amount |-> amount, payment_method |-> method,
         payment_address |-> address, status |-> "pending",
         created_at |-> now, processed_at |-> None, admin_note |-> ""])

(***************************************************************************)
(* Initial state: a fresh deployment, no data.json.                        *)
(***************************************************************************)
InitCommon ==
    /\ now = 0
    /\ users = EmptyMap
    /\ user_tasks = EmptyMap
    /\ payout_requests = EmptyMap
    /\ withdrawals = <<>>
    /\ user_data = [u \in UserIds |-> NoData]
    /\ disk = Snapshot(EmptyMap, <<>>, EmptyMap)
    /\ claimed = [u \in UserIds |-> 0]
    /\ batch = NoBatch
    /\ granted = [u \in UserIds |-> 0]

InitMain == variant = "main" /\ InitCommon

(***************************************************************************)
(* main (1).py: handlers.                                                  *)
(***************************************************************************)
\* /start [referrer]: ref = None when the command carries no argument.
\* The referral condition of start.
start_pays(uid, ref) ==
    ref # None /\ ref # uid /\ ref \in DOMAIN get_user(users, uid)

start(uid, ref) ==
    /\ variant = "main"
    /\ LET us1 == get_user(users, uid)
           d1  == get_user_disk(users, uid, disk)
       IN  IF start_pays(uid, ref)
           THEN /\ TotalEarned(us1) + BONUS_REFERRAL <= MaxEarned
                /\ LET us2 == [us1 EXCEPT ![ref].referrals = @ + 1]
                       us3 == add_earnings(us2, ref, BONUS_REFERRAL)
                   IN  /\ users' = us3
                       /\ disk' = Snapshot(us3, withdrawals, payout_requests)
                /\ granted' = [granted EXCEPT ![uid] = @ + 1]
           ELSE /\ users' = us1
                /\ disk' = d1
                /\ UNCHANGED granted
    /\ UNCHANGED <<variant, batch, now, user_tasks, payout_requests, withdrawals,
                   user_data, claimed>>

\* button, data in {"balance", "payout", "my_requests", "referrals", "help",
\* "back_to_menu"}: nothing but the get_user upsert changes state.
button_view(uid) ==
    /\ variant = "main"
    /\ users' = get_user(users, uid)
    /\ disk' = get_user_disk(users, uid, disk)
    /\ UNCHANGED <<variant, granted, batch, now, user_tasks, payout_requests, withdrawals,
                   user_data, claimed>>

\* button, data = "tasks": the daily-limit check (with its in-memory reset).
button_tasks(uid) ==
    /\ variant = "main"
    /\ users' = can_earn_today_users(get_user(users, uid), uid)
    /\ disk' = get_user_disk(users, uid, disk)
    /\ UNCHANGED <<variant, granted, batch, now, user_tasks, payout_requests, withdrawals,
                   user_data, claimed>>

\* What the task button answers in the current state.
button_task_reply(uid, task_key) ==
    IF ~can_earn_today(get_user(users, uid), uid) THEN "DailyLimitReached"
    ELSE IF <<uid, task_key>> \in DOMAIN user_tasks
         THEN IF is_task_completed(uid, task_key) THEN "TaskCompleted"
              ELSE "TaskInProgress"
         ELSE "TaskStarted"

\* button, data in TASKS: start the attempt, report it running, or pay it.
button_task(uid, task_key) ==
    /\ variant = "main"
    /\ LET us1 == get_user(users, uid)
           d1  == get_user_disk(users, uid, disk)
           us2 == can_earn_today_users(us1, uid)
           reply == button_task_reply(uid, task_key)
       IN  CASE reply = "TaskCompleted" ->
                  /\ TotalEarned(us2) + TASKS[task_key].reward <= MaxEarned
                  /\ LET us3 == add_earnings(us2, uid, TASKS[task_key].reward)
                     IN  /\ users' = us3
                         /\ disk' = Snapshot(us3, withdrawals, payout_requests)
                  /\ user_tasks' = Drop(user_tasks, <<uid, task_key>>)
                  /\ claimed' = [claimed EXCEPT ![uid] = @ + 1]
             [] reply = "TaskStarted" ->
                  /\ users' = us2
                  /\ disk' = d1
                  /\ user_tasks' = Put(user_tasks, <<uid, task_key>>, now)
                  /\ UNCHANGED claimed
             [] OTHER ->
                  /\ users' = us2
                  /\ disk' = d1
                  /\ UNCHANGED <<user_tasks, claimed>>
    /\ UNCHANGED <<variant, granted, now, payout_requests, withdrawals, user_data>>

\* button, data = "payout_<method>": remember method and amount for the
\* address message.
button_payout_method(uid, method) ==
    /\ variant = "main"
    /\ LET us1 == get_user(users, uid)
       IN  /\ users' = us1
           /\ disk' = get_user_disk(users, uid, disk)
           /\ IF us1[uid].balance < PAYOUT_CONFIG[method]
              THEN UNCHANGED user_data
              ELSE user_data' = [user_data EXCEPT ![uid] =
                       [payout_method |-> method,
                        payout_amount |-> us1[uid].balance]]
    /\ UNCHANGED <<variant, granted, batch, now, user_tasks, payout_requests, withdrawals,
                   claimed>>

\* Mutant: the length of the address is not checked.
handle_payout_address_reply_any_address(uid, address) ==
    IF user_data[uid] = NoData THEN "Ignored"
    ELSE "Submitted"

\* What a text message answers in the current state.
handle_payout_address_reply(uid, address) ==
    IF user_data[uid] = NoData THEN "Ignored"
    ELSE IF Len(address) < MinAddressLen THEN "InvalidAddress"
    ELSE "Submitted"

\* Mutant: the debit is also taken from the total earned.
handle_payout_address_debits_total(uid, address, suffix) ==
    /\ variant = "main"
    /\ IF handle_payout_address_reply(uid, address) = "Submitted"
       THEN LET request_id == generate_request_id(suffix)
                prs1 == create_payout_request(payout_requests, request_id, uid,
                            user_data[uid].payout_amount,
                            user_data[uid].payout_method, address)
                us1 == get_user(users, uid)
                us2 == [us1 EXCEPT ![uid].balance = 0, ![uid].total_earned = 0]
            IN  /\ \/ request_id \in DOMAIN payout_requests
                   \/ Cardinality(DOMAIN payout_requests) < MaxRequests
                /\ payout_requests' = prs1
                /\ users' = us2
                /\ disk' = Snapshot(us2, withdrawals, prs1)
                /\ user_data' = [user_data EXCEPT ![uid] = NoData]
       ELSE UNCHANGED <<payout_requests, users, disk, user_data>>
    /\ UNCHANGED <<variant, granted, batch, now, user_tasks, withdrawals, claimed>>

\* Any text message that is no command.
handle_payout_address(uid, address, suffix) ==
    /\ variant = "main"
    /\ IF handle_payout_address_reply(uid, address) = "Submitted"
       THEN LET request_id == generate_request_id(suffix)
                prs1 == create_payout_request(payout_requests, request_id, uid,
                            user_data[uid].payout_amount,
                            user_data[uid].payout_method, address)
                us1 == get_user(users, uid)
                us2 == [us1 EXCEPT ![uid].balance = 0]
            IN  /\ \/ request_id \in DOMAIN payout_requests
                   \/ Cardinality(DOMAIN payout_requests) < MaxRequests
                /\ payout_requests' = prs1
                /\ users' = us2
                /\ disk' = Snapshot(us2, withdrawals, prs1)
                /\ user_data' = [user_data EXCEPT ![uid] = NoData]
       ELSE UNCHANGED <<payout_requests, users, disk, user_data>>
    /\ UNCHANGED <<variant, granted, batch, now, user_tasks, withdrawals, claimed>>

\* Mutant: the status check is missing, any known request is processed.
admin_reply_any_status(sender, request_id) ==
    IF sender # ADMIN_ID THEN "AccessDenied"
    ELSE IF request_id \notin DOMAIN payout_requests THEN "NotFound"
    ELSE "Processed"

\* Mutant: a rejected request counts as still pending.
admin_reply_rejected_again(sender, request_id) ==
    IF sender # ADMIN_ID THEN "AccessDenied"
    ELSE IF request_id \notin DOMAIN payout_requests THEN "NotFound"
    ELSE IF payout_requests[request_id].status = "approved"
         THEN "RequestNotPending"
    ELSE "Processed"

\* What /approve and /reject answer in the current state.
admin_reply(sender, request_id) ==
    IF sender # ADMIN_ID THEN "AccessDenied"
    ELSE IF request_id \notin DOMAIN payout_requests THEN "NotFound"
    ELSE IF payout_requests[request_id].status # "pending"
         THEN "RequestNotPending"
    ELSE "Processed"

\* Mutant: approving pays the amount back into the balance.
admin_approve_refunds(sender, request_id) ==
    /\ variant = "main"
    /\ IF admin_reply(sender, request_id) = "Processed"
       THEN LET prs1 == [payout_requests EXCEPT
                            ![request_id].status = "approved",
                            ![request_id].processed_at = now,
                            ![request_id].admin_note = "Approved by admin"]
                req == payout_requests[request_id]
                us1 == get_user(users, req.user_id)
                us2 == [us1 EXCEPT ![req.user_id].balance = @ + req.amount]
            IN  /\ payout_requests' = prs1
                /\ users' = us2
                /\ disk' = Snapshot(us2, withdrawals, prs1)
       ELSE UNCHANGED <<payout_requests, users, disk>>
    /\ UNCHANGED <<variant, granted, batch, now, user_tasks, withdrawals,
                   user_data, claimed>>

admin_approve(sender, request_id) ==
    /\ variant = "main"
    /\ IF admin_reply(sender, request_id) = "Processed"
       THEN LET prs1 == [payout_requests EXCEPT
                            ![request_id].status = "approved",
                            ![request_id].processed_at = now,
                            ![request_id].admin_note = "Approved by admin"]
            IN  /\ payout_requests' = prs1
                /\ disk' = Snapshot(users, withdrawals, prs1)
       ELSE UNCHANGED <<payout_requests, disk>>
    /\ UNCHANGED <<variant, granted, batch, now, users, user_tasks, withdrawals, user_data,
                   claimed>>

\* Mutant: the reject pays the amount back twice.
reject_users_pays_twice(us, prs, request_id) ==
    LET req == prs[request_id]
        us1 == get_user(us, req.user_id)
    IN  [us1 EXCEPT ![req.user_id].balance = @ + req.amount + req.amount]

\* The users map after the balance restore of admin_reject.
reject_users(us, prs, request_id) ==
    LET req == prs[request_id]
        us1 == get_user(us, req.user_id)
    IN  [us1 EXCEPT ![req.user_id].balance = @ + req.amount]

admin_reject(sender, request_id, reason) ==
    /\ variant = "main"
    /\ IF admin_reply(sender, request_id) = "Processed"
       THEN LET prs1 == [payout_requests EXCEPT
                            ![request_id].status = "rejected",
                            ![request_id].processed_at = now,
                            ![request_id].admin_note = reason]
                us2  == reject_users(users, prs1, request_id)
            IN  /\ payout_requests' = prs1
                /\ users' = us2
                /\ disk' = Snapshot(us2, withdrawals, prs1)
       ELSE UNCHANGED <<payout_requests, users, disk>>
    /\ UNCHANGED <<variant, granted, batch, now, user_tasks, withdrawals, user_data, claimed>>

\* Process restart: module globals are re-initialised and main() calls
\* load_data; user_tasks and context.user_data live in memory only.
load_data ==
    /\ variant = "main"
    /\ users' = disk.users
    /\ withdrawals' = disk.withdrawals
    /\ payout_requests' = disk.payout_requests
    /\ user_tasks' = EmptyMap
    /\ user_data' = [u \in UserIds |-> NoData]
    /\ UNCHANGED <<variant, granted, batch, now, disk, claimed>>

\* Mutant: the query forgets the attempt it looked at.
timer_query_pops(uid, task_key) ==
    /\ user_tasks' = Drop(user_tasks, <<uid, task_key>>)
    /\ UNCHANGED <<variant, granted, batch, now, users, payout_requests,
                   withdrawals, user_data, disk, claimed>>

\* A call of is_task_completed and get_remaining_time (of any of the three
\* programs): both look the attempt up and read the clock, they assign
\* nothing.
timer_query(uid, task_key) ==
    /\ user_tasks' = user_tasks
    /\ UNCHANGED <<variant, granted, batch, now, users, payout_requests,
                   withdrawals, user_data, disk, claimed>>

\* The clock advances.
Tick ==
    /\ now < MaxTime
    /\ now' = now + 1
    /\ UNCHANGED <<variant, granted, batch, users, user_tasks, payout_requests, withdrawals,
                   user_data, disk, claimed>>

RequestArgs == DOMAIN payout_requests \cup {UnknownId}

NextMain ==
    \/ \E uid \in UserIds, ref \in Referrers \cup {None} : start(uid, ref)
    \/ \E uid \in UserIds : button_view(uid)
    \/ \E uid \in TaskUsers : button_tasks(uid)
    \/ \E uid \in TaskUsers, task_key \in TaskKeys :
           button_task(uid, task_key) /\ UNCHANGED batch
    \/ \E uid \in PayoutUsers, method \in Methods : button_payout_method(uid, method)
    \/ \E uid \in PayoutUsers, address \in Addresses, suffix \in Suffixes :
           handle_payout_address(uid, address, suffix)
    \/ \E sender \in Senders, request_id \in RequestArgs :
           admin_approve(sender, request_id)
    \/ \E sender \in Senders, request_id \in RequestArgs,
          reason \in Reasons : admin_reject(sender, request_id, reason)
    \/ load_data
    \/ variant = "main" /\ \E uid \in TaskUsers, task_key \in DOMAIN TASKS :
                               timer_query(uid, task_key)
    \/ variant = "main" /\ Tick

SpecMain == InitMain /\ [][NextMain]_vars

(***************************************************************************)
(* bot.py (the simple bot).  An amount typed by a user goes through        *)
(* float(), so it may be NaN: every comparison with NaN is false and       *)
(* every sum or difference with NaN is NaN.                                *)
(***************************************************************************)
NaN == -1000

float_lt(a, b) == a # NaN /\ b # NaN /\ a < b
float_ge(a, b) == a # NaN /\ b # NaN /\ a >= b
float_add(a, b) == IF a = NaN \/ b = NaN THEN NaN ELSE a + b
float_sub(a, b) == IF a = NaN \/ b = NaN THEN NaN ELSE a - b

\* float(amount) of handle_message; None stands for ValueError.
float(text) ==
    CASE text = "0" -> 0
      [] text = "1" -> 1
      [] text = "nan" -> NaN
      [] OTHER -> None

AmountTexts == {"0", "1", "nan", "abc"}
Accounts == {"P1"}
MaxWithdrawals == 2

bot_Snapshot(us, ws, uts) ==
    [users |-> us, withdrawals |-> ws, payout_requests |-> EmptyMap,
     user_tasks |-> uts]

bot_NewUser(ref) ==
    [balance |-> 0, ref |-> ref, completed_tasks |-> <<>>,
     last_reset |-> Date(now), join_date |-> now]

\* The lazy upsert at the head of start and handle_callback.
bot_upsert(us, uid, ref) ==
    IF uid \in DOMAIN us THEN us ELSE Put(us, uid, bot_NewUser(ref))

reset_daily_tasks(us) ==
    [u \in DOMAIN us |->
        IF us[u].last_reset # Date(now)
        THEN [us[u] EXCEPT !.completed_tasks = <<>>, !.last_reset = Date(now)]
        ELSE us[u]]

bot_is_task_completed(uid, task_key) ==
    /\ <<uid, task_key>> \in DOMAIN user_tasks
    /\ now - user_tasks[<<uid, task_key>>] >= required_wait(task_key)

bot_get_remaining_time(uid, task_key) ==
    IF <<uid, task_key>> \notin DOMAIN user_tasks THEN TASKS[task_key].wait
    ELSE int(Max(0, required_wait(task_key)
                       - (now - user_tasks[<<uid, task_key>>])))

\* The task buttons of bot.py that the users press.
bot_TaskKeys == {"like", "watch"}

InitSimple == variant = "simple" /\ InitCommon

\* /start [referrer]: the referral bonus is paid when the record is created,
\* and the new record is in users before the referrer is looked up.
bot_start_pays(uid, ref) ==
    /\ uid \notin DOMAIN users
    /\ ref # None
    /\ ref \in DOMAIN bot_upsert(users, uid, ref)

bot_start(uid, ref) ==
    /\ variant = "simple"
    /\ LET us1 == bot_upsert(users, uid, ref)
           us2 == IF bot_start_pays(uid, ref)
                  THEN [us1 EXCEPT ![ref].balance =
                                       float_add(@, BONUS_REFERRAL)]
                  ELSE us1
           us3 == reset_daily_tasks(us2)
       IN  /\ users' = us3
           /\ disk' = bot_Snapshot(us3, withdrawals, user_tasks)
           /\ granted' = IF bot_start_pays(uid, ref)
                         THEN [granted EXCEPT ![uid] = @ + 1]
                         ELSE granted
    /\ UNCHANGED <<variant, batch, now, user_tasks, payout_requests, withdrawals,
                   user_data, claimed>>

\* handle_callback, data in {"balance", "withdraw", "contact",
\* "back_to_menu"}, and /balance of a known user.
bot_view(uid) ==
    /\ variant = "simple"
    /\ LET us1 == reset_daily_tasks(bot_upsert(users, uid, None))
       IN  /\ users' = us1
           /\ disk' = bot_Snapshot(us1, withdrawals, user_tasks)
    /\ UNCHANGED <<variant, granted, batch, now, user_tasks, payout_requests, withdrawals,
                   user_data, claimed>>

\* What a task button answers, given the users map after upsert and reset.
bot_task_reply(us, uid, data) ==
    IF Len(us[uid].completed_tasks) >= DAILY_LIMIT THEN "DailyLimitReached"
    ELSE IF \E i \in 1..Len(us[uid].completed_tasks) :
                us[uid].completed_tasks[i] = data
         THEN "AlreadyCompleted"
    ELSE "TaskStarted"

\* handle_callback, data in TASKS: (re)start the timer of the task.
bot_task(uid, data) ==
    /\ variant = "simple"
    /\ LET us1 == reset_daily_tasks(bot_upsert(users, uid, None))
           uts1 == IF bot_task_reply(us1, uid, data) = "TaskStarted"
                   THEN Put(user_tasks, <<uid, data>>, now)
                   ELSE user_tasks
       IN  /\ users' = us1
           /\ user_tasks' = uts1
           /\ disk' = bot_Snapshot(us1, withdrawals, uts1)
    /\ UNCHANGED <<variant, granted, batch, now, payout_requests, withdrawals, user_data,
                   claimed>>

\* What "I Completed the Task" answers in the current state.
bot_verify_reply(uid, task_key) ==
    IF ~bot_is_task_completed(uid, task_key) THEN "PleaseWait"
    ELSE "TaskCompleted"

\* Mutant: the paid attempt is not removed from user_tasks.
bot_verify_keeps_attempt(uid, task_key) ==
    /\ variant = "simple"
    /\ LET us1 == reset_daily_tasks(bot_upsert(users, uid, None))
       IN  IF bot_verify_reply(uid, task_key) = "TaskCompleted"
           THEN LET us2 == [us1 EXCEPT
                               ![uid].completed_tasks = Append(@, task_key),
                               ![uid].balance =
                                   float_add(@, TASKS[task_key].reward)]
                IN  /\ users' = us2
                    /\ disk' = bot_Snapshot(us2, withdrawals, user_tasks)
                    /\ claimed' = [claimed EXCEPT ![uid] = @ + 1]
                    /\ UNCHANGED user_tasks
           ELSE /\ users' = us1
                /\ disk' = bot_Snapshot(us1, withdrawals, user_tasks)
                /\ UNCHANGED <<user_tasks, claimed>>
    /\ UNCHANGED <<variant, granted, batch, now, payout_requests, withdrawals, user_data>>

\* handle_callback, data = "verify_<task>": pay the reward or ask to wait.
bot_verify(uid, task_key) ==
    /\ variant = "simple"
    /\ LET us1 == reset_daily_tasks(bot_upsert(users, uid, None))
       IN  IF bot_verify_reply(uid, task_key) = "TaskCompleted"
           THEN LET us2 == [us1 EXCEPT
                               ![uid].completed_tasks = Append(@, task_key),
                               ![uid].balance =
                                   float_add(@, TASKS[task_key].reward)]
                    uts1 == Drop(user_tasks, <<uid, task_key>>)
                IN  /\ users' = us2
                    /\ user_tasks' = uts1
                    /\ disk' = bot_Snapshot(us2, withdrawals, uts1)
                    /\ claimed' = [claimed EXCEPT ![uid] = @ + 1]
           ELSE /\ users' = us1
                /\ disk' = bot_Snapshot(us1, withdrawals, user_tasks)
                /\ UNCHANGED <<user_tasks, claimed>>
    /\ UNCHANGED <<variant, granted, batch, now, payout_requests, withdrawals, user_data>>

bot_MIN_WITHDRAW == [faucetpay |-> FaucetpayMin, payeer |-> PayeerMin]

\* What a "method account amount" message answers in the current state.
bot_handle_message_reply(uid, method, text) ==
    IF uid \notin DOMAIN users THEN "UseStartFirst"
    ELSE IF float(text) = None THEN "InvalidAmount"
    ELSE IF method \notin DOMAIN bot_MIN_WITHDRAW THEN "InvalidMethod"
    ELSE IF float_lt(float(text), bot_MIN_WITHDRAW[method])
         THEN "BelowMinimum"
    ELSE IF float_lt(users[uid].balance, float(text))
         THEN "InsufficientBalance"
    ELSE "Submitted"

\* handle_message with a three-word text: the withdrawal request.
bot_handle_message(uid, method, account, text) ==
    /\ variant = "simple"
    /\ IF bot_handle_message_reply(uid, method, text) = "Submitted"
       THEN LET amount == float(text)
                us1 == [users EXCEPT ![uid].balance = float_sub(@, amount)]
                ws1 == Append(withdrawals,
                           [uid |-> uid, method |-> method,
                            account |-> account, amount |-> amount,
                            timestamp |-> now, status |-> "pending"])
            IN  /\ Len(withdrawals) < MaxWithdrawals
                /\ users' = us1
                /\ withdrawals' = ws1
                /\ disk' = bot_Snapshot(us1, ws1, user_tasks)
       ELSE UNCHANGED <<users, withdrawals, disk>>
    /\ UNCHANGED <<variant, granted, batch, now, user_tasks, payout_requests, user_data,
                   claimed>>

\* Process restart: run_bot calls load_data, which reads users, withdrawals
\* and user_tasks back from data.json.
bot_load_data ==
    /\ variant = "simple"
    /\ users' = disk.users
    /\ withdrawals' = disk.withdrawals
    /\ user_tasks' = disk.user_tasks
    /\ UNCHANGED <<variant, granted, batch, now, payout_requests, user_data, disk, claimed>>

NextSimple ==
    \/ \E uid \in UserIds, ref \in Referrers \cup {None} : bot_start(uid, ref)
    \/ \E uid \in TaskUsers : bot_view(uid)
    \/ \E uid \in TaskUsers, data \in bot_TaskKeys : bot_task(uid, data)
    \/ \E uid \in TaskUsers, task_key \in bot_TaskKeys :
           bot_verify(uid, task_key)
    \/ \E uid \in PayoutUsers, method \in Methods, account \in Accounts,
          text \in AmountTexts : bot_handle_message(uid, method, account, text)
    \/ bot_load_data
    \/ variant = "simple" /\ \E uid \in TaskUsers, task_key \in DOMAIN TASKS :
                               timer_query(uid, task_key)
    \/ variant = "simple" /\ Tick

SpecSimple == InitSimple /\ [][NextSimple]_vars

(***************************************************************************)
(* bot (11).py (src/unnamed/part_000): the bot in front of a REST backend. *)
(* The backend is not part of the sources: `users` is its user table, GET  *)
(* answers the stored record, POST /users stores the record sent, PATCH    *)
(* overwrites the fields sent and stamps lastActivity.  active_tasks of    *)
(* TaskManager is kept in user_tasks.                                      *)
(***************************************************************************)
api_post_user(us, uid) ==
    Put(us, uid, [balance |-> 0, totalEarned |-> 0, tasksCompleted |-> 0,
                  referrals |-> 0, dailyEarned |-> 0, lastActivity |-> now])

api_patch(us, uid, updates) ==
    Put(us, uid, [f \in DOMAIN us[uid] |->
                     IF f \in DOMAIN updates THEN updates[f]
                     ELSE IF f = "lastActivity" THEN now
                     ELSE us[uid][f]])

get_or_create_user(us, uid) ==
    IF uid \in DOMAIN us THEN us ELSE api_post_user(us, uid)

api_can_earn_today(user) ==
    \/ Date(user.lastActivity) < Date(now)
    \/ user.dailyEarned < DAILY_LIMIT

add_user_earnings(us, uid, amount) ==
    api_patch(us, uid,
        [balance |-> us[uid].balance + amount,
         totalEarned |-> us[uid].totalEarned + amount,
         dailyEarned |-> us[uid].dailyEarned + amount,
         tasksCompleted |-> us[uid].tasksCompleted + 1])

RECURSIVE api_SumEarned(_, _)
api_SumEarned(us, S) ==
    IF S = {} THEN 0
    ELSE LET u == CHOOSE x \in S : TRUE
         IN  us[u].totalEarned + api_SumEarned(us, S \ {u})

TaskManager_is_task_completed(uid, task_key) ==
    /\ <<uid, task_key>> \in DOMAIN user_tasks
    /\ now - user_tasks[<<uid, task_key>>] >= required_wait(task_key)

TaskManager_get_remaining_time(uid, task_key) ==
    IF <<uid, task_key>> \notin DOMAIN user_tasks THEN 0
    ELSE int(Max(0, required_wait(task_key)
                       - (now - user_tasks[<<uid, task_key>>])))

\* The tasks the backend lists (GET /tasks), and the task keys that the
\* callback data of a button can carry.
api_tasks == [like |-> [isActive |-> TRUE], retired |-> [isActive |-> FALSE]]
api_TaskArgs == DOMAIN api_tasks \cup {"bogus"}

InitApi == variant = "api" /\ InitCommon

\* /start [referrer].
api_start_pays(uid, ref) ==
    ref # None /\ ref # uid /\ ref \in DOMAIN get_or_create_user(users, uid)

api_start(uid, ref) ==
    /\ variant = "api"
    /\ LET us1 == get_or_create_user(users, uid)
       IN  IF api_start_pays(uid, ref)
           THEN /\ api_SumEarned(us1, DOMAIN us1) + BONUS_REFERRAL <= MaxEarned
                /\ LET us2 == add_user_earnings(us1, ref, BONUS_REFERRAL)
                   IN  users' = api_patch(us2, ref,
                                   [referrals |-> us1[ref].referrals + 1])
                /\ granted' = [granted EXCEPT ![uid] = @ + 1]
           ELSE /\ users' = us1
                /\ UNCHANGED granted
    /\ UNCHANGED <<variant, batch, now, user_tasks, payout_requests, withdrawals,
                   user_data, disk, claimed>>

\* button_handler, data "show_..." or "back_main" or "task_<key>": nothing
\* but the get_or_create_user upsert changes state.
api_view(uid) ==
    /\ variant = "api"
    /\ users' = get_or_create_user(users, uid)
    /\ UNCHANGED <<variant, granted, batch, now, user_tasks, payout_requests, withdrawals,
                   user_data, disk, claimed>>

\* What "task_<key>" answers, given the users map after get_or_create_user.
handle_task_start_reply(us, uid, task_key) ==
    IF ~api_can_earn_today(us[uid]) THEN "DailyLimitReached"
    ELSE IF task_key \notin DOMAIN api_tasks THEN "TaskNotFound"
    ELSE IF TaskManager_get_remaining_time(uid, task_key) > 0
         THEN "TaskInProgress"
    ELSE "ConfirmStart"

\* button_handler, data "task_<key>": shows the confirmation or an alert.
handle_task_start(uid, task_key) ==
    /\ variant = "api"
    /\ users' = get_or_create_user(users, uid)
    /\ UNCHANGED <<variant, granted, batch, now, user_tasks, payout_requests,
                   withdrawals, user_data, disk, claimed>>

\* button_handler, data "confirm_task_<key>": start_task records the start
\* time before it posts to the backend, whatever the backend answers.
handle_task_confirm(uid, task_key, ok) ==
    /\ variant = "api"
    /\ users' = get_or_create_user(users, uid)
    /\ user_tasks' = Put(user_tasks, <<uid, task_key>>, now)
    /\ UNCHANGED <<variant, granted, batch, now, payout_requests, withdrawals, user_data,
                   disk, claimed>>

\* What "claim_task_<key>" answers; ok: the backend accepts the PATCH.
handle_task_claim_reply(uid, task_key, ok) ==
    IF task_key \notin DOMAIN api_tasks THEN "TaskNotFound"
    ELSE IF ~TaskManager_is_task_completed(uid, task_key)
    THEN IF TaskManager_get_remaining_time(uid, task_key) > 0
         THEN "TaskStillWaiting"
         ELSE "TaskNotStarted"
    ELSE IF ok THEN "TaskCompleted"
    ELSE "RewardFailed"

\* button_handler, data "claim_task_<key>".
handle_task_claim(uid, task_key, ok) ==
    /\ variant = "api"
    /\ LET us1 == get_or_create_user(users, uid)
       IN  IF handle_task_claim_reply(uid, task_key, ok) = "TaskCompleted"
           THEN /\ api_SumEarned(us1, DOMAIN us1) + TASKS[task_key].reward
                       <= MaxEarned
                /\ users' = add_user_earnings(us1, uid, TASKS[task_key].reward)
                /\ user_tasks' = Drop(user_tasks, <<uid, task_key>>)
                /\ claimed' = [claimed EXCEPT ![uid] = @ + 1]
           ELSE /\ users' = us1
                /\ UNCHANGED <<user_tasks, claimed>>
    /\ UNCHANGED <<variant, granted, now, payout_requests, withdrawals, user_data,
                   disk>>

\* Process restart: task_manager = TaskManager() starts empty, the backend
\* keeps the users.
api_restart ==
    /\ variant = "api"
    /\ user_tasks' = EmptyMap
    /\ UNCHANGED <<variant, granted, batch, now, users, payout_requests, withdrawals,
                   user_data, disk, claimed>>

NextApi ==
    \/ \E uid \in UserIds, ref \in Referrers \cup {None} : api_start(uid, ref)
    \/ \E uid \in TaskUsers : api_view(uid)
    \/ \E uid \in TaskUsers, task_key \in api_TaskArgs :
           handle_task_start(uid, task_key)
    \/ \E uid \in TaskUsers, task_key \in api_TaskArgs, ok \in BOOLEAN :
           handle_task_confirm(uid, task_key, ok)
    \/ \E uid \in TaskUsers, task_key \in api_TaskArgs, ok \in BOOLEAN :
           handle_task_claim(uid, task_key, ok) /\ UNCHANGED batch
    \/ api_restart
    \/ variant = "api" /\ \E uid \in TaskUsers, task_key \in DOMAIN TASKS :
                               timer_query(uid, task_key)
    \/ variant = "api" /\ Tick

SpecApi == InitApi /\ [][NextApi]_vars

(***************************************************************************)
(* The repository as a whole: one of the three programs runs.              *)
(***************************************************************************)
Variants == {"main", "simple", "api"}

Init == variant \in Variants /\ InitCommon

Next == NextMain \/ NextSimple \/ NextApi

Spec == Init /\ [][Next]_vars

(***************************************************************************)
(* Claim calls.  The claim operation of main (1).py is the task button, of *)
(* bot.py the "verify_<task>" button, of bot (11).py "claim_task_<key>".   *)
(***************************************************************************)
\* What a claim call answers in the current state (backend reachable).
ClaimReply(uid, task_key) ==
    CASE variant = "main" -> button_task_reply(uid, task_key)
      [] variant = "simple" -> bot_verify_reply(uid, task_key)
      [] OTHER -> handle_task_claim_reply(uid, task_key, TRUE)

\* A step of the claim handler of the running program.
ClaimCall(uid, task_key) ==
    \/ button_task(uid, task_key)
    \/ bot_verify(uid, task_key)
    \/ \E ok \in BOOLEAN : handle_task_claim(uid, task_key, ok)

(***************************************************************************)
(* Concurrent claim calls: n taps on the claim button reach the update     *)
(* queue while the attempt is claimable; the Application then runs the     *)
(* handler once per queued update, one at a time, in any interleaving with *)
(* the clock and the other users.                                          *)
(***************************************************************************)
MaxParallel == 2

IssueClaims(uid, task_key, n) ==
    /\ batch = NoBatch
    /\ <<uid, task_key>> \in DOMAIN user_tasks
    /\ now - user_tasks[<<uid, task_key>>] >= required_wait(task_key)
    /\ batch' = [uid |-> uid, task_key |-> task_key, issued |-> n,
                 pending |-> n, credited |-> 0, others |-> {}]
    /\ UNCHANGED <<variant, granted, now, users, user_tasks, payout_requests,
                   withdrawals, user_data, disk, claimed>>

HandleQueuedClaim ==
    /\ batch.pending > 0
    /\ LET uid == batch.uid
           task_key == batch.task_key
           reply == ClaimReply(uid, task_key)
       IN  /\ \/ button_task(uid, task_key)
              \/ handle_task_claim(uid, task_key, TRUE)
           /\ batch' = [batch EXCEPT
                  !.pending = @ - 1,
                  !.credited = IF claimed'[uid] # claimed[uid]
                               THEN @ + 1 ELSE @,
                  !.others = IF claimed'[uid] # claimed[uid]
                             THEN @ ELSE @ \cup {reply}]

InitClaims == variant \in {"main", "api"} /\ InitCommon

NextClaims ==
    \/ \E uid \in UserIds, ref \in Referrers \cup {None} : start(uid, ref)
    \/ \E uid \in UserIds, ref \in Referrers \cup {None} : api_start(uid, ref)
    \/ \E uid \in TaskUsers, task_key \in TaskKeys :
           batch.pending = 0 /\ button_task(uid, task_key) /\ UNCHANGED batch
    \/ \E uid \in TaskUsers, task_key \in TaskKeys, ok \in BOOLEAN :
           batch.pending = 0 /\ handle_task_confirm(uid, task_key, ok)
    \/ \E uid \in TaskUsers, task_key \in TaskKeys, n \in 2..MaxParallel :
           IssueClaims(uid, task_key, n)
    \/ HandleQueuedClaim
    \/ Tick

SpecClaims == InitClaims /\ [][NextClaims]_vars

(***************************************************************************)
(* The two programs that keep the total earned of each user: main (1).py   *)
(* and the API bot, with all their handlers.                               *)
(***************************************************************************)
NextLedger == NextMain \/ NextApi

SpecLedger == InitClaims /\ [][NextLedger]_vars

(***************************************************************************)
(* Write failures.  open("data.json", "w") raises (disk full, no           *)
(* permission) while a reward is being paid: data.json keeps its old       *)
(* content.  In main (1).py the exception leaves save_data and add_earnings *)
(* and ends the handler; in bot.py save_data logs it and returns.          *)
(***************************************************************************)
\* button, data in TASKS, claimable attempt: add_earnings has updated the
\* record when save_data raises, and "del user_tasks[...]" is not reached.
button_task_write_fails(uid, task_key) ==
    /\ variant = "main"
    /\ uid \in DOMAIN users
    /\ button_task_reply(uid, task_key) = "TaskCompleted"
    /\ claimed[uid] < MaxEarned
    /\ LET us2 == can_earn_today_users(users, uid)
       IN  /\ TotalEarned(us2) + TASKS[task_key].reward <= MaxEarned
           /\ users' = add_earnings(us2, uid, TASKS[task_key].reward)
    /\ claimed' = [claimed EXCEPT ![uid] = @ + 1]
    /\ UNCHANGED <<variant, granted, batch, now, user_tasks, payout_requests,
                   withdrawals, user_data, disk>>

\* handle_callback, data = "verify_<task>", claimable attempt: the handler
\* runs to its end and answers that the reward was paid.
bot_verify_write_fails(uid, task_key) ==
    /\ variant = "simple"
    /\ uid \in DOMAIN users
    /\ bot_verify_reply(uid, task_key) = "TaskCompleted"
    /\ claimed[uid] < MaxEarned
    /\ users' = [reset_daily_tasks(users) EXCEPT
                    ![uid].completed_tasks = Append(@, task_key),
                    ![uid].balance = float_add(@, TASKS[task_key].reward)]
    /\ user_tasks' = Drop(user_tasks, <<uid, task_key>>)
    /\ claimed' = [claimed EXCEPT ![uid] = @ + 1]
    /\ UNCHANGED <<variant, granted, batch, now, payout_requests, withdrawals,
                   user_data, disk>>

InitFaults == variant \in {"main", "simple"} /\ InitCommon

\* The task handlers of the two programs that write data.json, each with
\* and without a failing write, and their restarts.
NextFaults ==
    \/ \E uid \in TaskUsers : start(uid, None)
    \/ \E uid \in TaskUsers : bot_start(uid, None)
    \/ \E uid \in TaskUsers, task_key \in TaskKeys :
           button_task(uid, task_key) /\ UNCHANGED batch
    \/ \E uid \in TaskUsers, data \in bot_TaskKeys : bot_task(uid, data)
    \/ \E uid \in TaskUsers, task_key \in bot_TaskKeys :
           bot_verify(uid, task_key)
    \/ load_data
    \/ bot_load_data
    \/ Tick
    \/ \E uid \in TaskUsers, task_key \in TaskKeys :
           button_task_write_fails(uid, task_key)
    \/ \E uid \in TaskUsers, task_key \in bot_TaskKeys :
           bot_verify_write_fails(uid, task_key)

SpecFaults == InitFaults /\ [][NextFaults]_vars

(***************************************************************************)
(* A process killed inside a handler.  main (1).py writes data.json twice  *)
(* while it creates a payout request: create_payout_request saves the new  *)
(* request, then handle_payout_address sets the balance to 0.0 and saves   *)
(* again.  A process that dies between the two writes is started again by  *)
(* its supervisor, and main() reads data.json back.                        *)
(***************************************************************************)
\* handle_payout_address up to the save_data of create_payout_request, then
\* load_data of the new process.  Explored for requests stored under a new
\* id, which bounds the number of kills by MaxRequests.
handle_payout_address_killed(uid, address, suffix) ==
    /\ variant = "main"
    /\ handle_payout_address_reply(uid, address) = "Submitted"
    /\ LET request_id == generate_request_id(suffix)
           prs1 == create_payout_request(payout_requests, request_id, uid,
                       user_data[uid].payout_amount,
                       user_data[uid].payout_method, address)
       IN  /\ request_id \notin DOMAIN payout_requests
           /\ Cardinality(DOMAIN payout_requests) < MaxRequests
           /\ disk' = Snapshot(users, withdrawals, prs1)
           /\ payout_requests' = prs1
    /\ user_tasks' = EmptyMap
    /\ user_data' = [u \in UserIds |-> NoData]
    /\ UNCHANGED <<variant, granted, batch, now, users, withdrawals, claimed>>

NextCrash ==
    \/ \E uid \in UserIds, ref \in Referrers \cup {None} : start(uid, ref)
    \/ \E uid \in TaskUsers, task_key \in TaskKeys :
           button_task(uid, task_key) /\ UNCHANGED batch
    \/ \E uid \in PayoutUsers, method \in Methods : button_payout_method(uid, method)
    \/ \E uid \in PayoutUsers, address \in Addresses, suffix \in Suffixes :
           handle_payout_address(uid, address, suffix)
    \/ \E uid \in PayoutUsers, address \in Addresses, suffix \in Suffixes :
           handle_payout_address_killed(uid, address, suffix)
    \/ \E sender \in Senders, request_id \in RequestArgs :
           admin_approve(sender, request_id)
    \/ \E sender \in Senders, request_id \in RequestArgs,
          reason \in Reasons : admin_reject(sender, request_id, reason)
    \/ load_data
    \/ Tick

SpecCrash == InitMain /\ [][NextCrash]_vars

(***************************************************************************)
(* Claims about the payout-request engine of main (1).py (SpecMain).       *)
(***************************************************************************)
PendingOf(uid) == get_user_pending_requests(payout_requests, uid)

\* A text message of uid that creates a payout request.
CreateStep(uid, address, suffix) ==
    /\ user_data[uid] # NoData
    /\ Len(address) >= MinAddressLen
    /\ handle_payout_address(uid, address, suffix)

\* C2: in every reachable state each user has at most one payout request
\* with status pending (a create while one is pending creates nothing).
C2_AtMostOnePending ==
    \A uid \in UserIds : Cardinality(PendingOf(uid)) <= 1

C8_FailedProcessingChangesNothing ==
    [][\A request_id \in DOMAIN payout_requests \cup {UnknownId},
          reason \in Reasons :
          (/\ \/ request_id \notin DOMAIN payout_requests
              \/ payout_requests[request_id].status # "pending"
           /\ \/ admin_approve(ADMIN_ID, request_id)
              \/ admin_reject(ADMIN_ID, request_id, reason))
          => /\ payout_requests' = payout_requests
             /\ users' = users]_vars

\* C8 witness: a rejected request whose amount is back on the balance of
\* its user, next to an id that names no request.
C8_Witness ==
    /\ UnknownId \notin DOMAIN payout_requests
    /\ \E id \in DOMAIN payout_requests :
          /\ payout_requests[id].status = "rejected"
          /\ payout_requests[id].amount > 0
          /\ users[payout_requests[id].user_id].balance
                 = payout_requests[id].amount

\* C9: a successful create debits the balance of the user by exactly the
\* amount of the request it stores.
C9_DebitEqualsAmount ==
    [][\A uid \in UserIds, address \in Addresses, suffix \in Suffixes :
          CreateStep(uid, address, suffix)
          => users'[uid].balance
                 = users[uid].balance
                     - payout_requests'[generate_request_id(suffix)].amount]_vars

\* C10: rejecting a pending request sets its status to rejected, records
\* the reason as admin note and adds exactly the amount of the request to
\* the balance of its user, leaving total_earned, daily_earned and
\* tasks_completed alone; and a create directly followed by the reject of
\* the created request gives the user the balance held before the create.
C10_RejectRestores ==
    [][/\ \A request_id \in DOMAIN payout_requests, reason \in Reasons :
            (/\ payout_requests[request_id].status = "pending"
             /\ admin_reject(ADMIN_ID, request_id, reason))
            => LET req == payout_requests[request_id]
                   u   == req.user_id
               IN  /\ payout_requests'[request_id].status = "rejected"
                   /\ payout_requests'[request_id].admin_note = reason
                   /\ users'[u].balance = users[u].balance + req.amount
                   /\ users'[u].total_earned = users[u].total_earned
                   /\ users'[u].daily_earned = users[u].daily_earned
                   /\ users'[u].tasks_completed = users[u].tasks_completed
       /\ \A uid \in UserIds, address \in Addresses, suffix \in Suffixes :
            CreateStep(uid, address, suffix)
            => reject_users(users', payout_requests',
                            generate_request_id(suffix))[uid].balance
                   = users[uid].balance]_vars

(***************************************************************************)
(* Claims about balances, task rewards and counters (Spec, SpecClaims).    *)
(***************************************************************************)
\* C1: in every reachable state the balance of every user is >= 0.
C1_BalanceNonNegative ==
    \A u \in DOMAIN users : float_ge(users[u].balance, 0)

\* C3: a claim call credits a task reward only in a step that starts with a
\* live attempt for the (user, task key) whose elapsed time now - start is at
\* least the wait of the task; from every other state a claim call leaves
\* the balance and the number of rewards granted as they were.
C3_NoPrematureReward ==
    [][\A uid \in TaskUsers, task_key \in DOMAIN TASKS :
          (/\ uid \in DOMAIN users'
           /\ \/ claimed'[uid] # claimed[uid]
              \/ users'[uid].balance
                     # (IF uid \in DOMAIN users THEN users[uid].balance ELSE 0)
           /\ ClaimCall(uid, task_key))
          => /\ <<uid, task_key>> \in DOMAIN user_tasks
             /\ now - user_tasks[<<uid, task_key>>] >= required_wait(task_key)]_vars

\* C3 witness: a reward has been granted and a later attempt of the same
\* user is still inside its wait.
C3_Witness ==
    \E uid \in TaskUsers, task_key \in DOMAIN TASKS :
        /\ claimed[uid] > 0
        /\ users[uid].balance > 0
        /\ <<uid, task_key>> \in DOMAIN user_tasks
        /\ now - user_tasks[<<uid, task_key>>] < required_wait(task_key)

\* C4: a successful claim grants one reward and removes the attempt in the
\* same step, and a second claim call right after it (no new start) is
\* answered TaskNotStarted, so it credits nothing.
C4_CreditedExactlyOnce ==
    [][\A uid \in TaskUsers, task_key \in DOMAIN TASKS :
          (ClaimCall(uid, task_key) /\ claimed'[uid] # claimed[uid])
          => /\ claimed'[uid] = claimed[uid] + 1
             /\ <<uid, task_key>> \notin DOMAIN user_tasks'
             /\ ClaimReply(uid, task_key)' = "TaskNotStarted"]_vars

\* C5: of n >= 2 claim calls issued together for one claimable (user, task)
\* at most one credits the reward, every other one is answered
\* TaskNotStarted, and once all are handled exactly one has credited.
C5_ExactlyOneCredit ==
    /\ batch.credited <= 1
    /\ batch.others \subseteq {"TaskNotStarted"}
    /\ (batch.issued > 0 /\ batch.pending = 0) => batch.credited = 1

\* C6: the tasks-completed counter of every user equals the number of task
\* rewards granted to that user (a referral bonus does not count).
C6_TasksCompletedCountsClaims ==
    \A u \in DOMAIN users :
        CASE variant = "main" -> users[u].tasks_completed = claimed[u]
          [] variant = "api" -> users[u].tasksCompleted = claimed[u]
          [] OTHER -> TRUE

(***************************************************************************)
(* Claims about referrals (Spec).                                          *)
(***************************************************************************)
\* C11: over all /start calls of one user, whatever the referrer argument,
\* at most one pays a referral bonus.
C11_ReferralAtMostOnce ==
    \A uid \in UserIds : granted[uid] <= 1

\* C12: a /start call that pays a referral bonus adds exactly the bonus to
\* the balance and to the total earned of the referrer, adds 1 to the
\* referrals counter and leaves the tasks-completed counter as it was.
C12_ReferralCredit ==
    [][\A uid \in UserIds, ref \in Referrers :
          /\ (start_pays(uid, ref) /\ start(uid, ref))
             => /\ users'[ref].balance = users[ref].balance + BONUS_REFERRAL
                /\ users'[ref].total_earned
                       = users[ref].total_earned + BONUS_REFERRAL
                /\ users'[ref].referrals = users[ref].referrals + 1
                /\ users'[ref].tasks_completed = users[ref].tasks_completed
          /\ (api_start_pays(uid, ref) /\ api_start(uid, ref))
             => /\ users'[ref].balance = users[ref].balance + BONUS_REFERRAL
                /\ users'[ref].totalEarned
                       = users[ref].totalEarned + BONUS_REFERRAL
                /\ users'[ref].referrals = users[ref].referrals + 1
                /\ users'[ref].tasksCompleted = users[ref].tasksCompleted]_vars

(***************************************************************************)
(* Claims about the daily limit and the task attempts (Spec).              *)
(***************************************************************************)
\* The user has a record whose last activity is today and whose daily
\* counter (earnings; completed tasks in bot.py) has reached the limit.
CannotEarnToday(uid) ==
    /\ uid \in DOMAIN users
    /\ CASE variant = "main" ->
                /\ Date(users[uid].last_activity) = Date(now)
                /\ users[uid].daily_earned >= DAILY_LIMIT
         [] variant = "api" ->
                /\ Date(users[uid].lastActivity) = Date(now)
                /\ users[uid].dailyEarned >= DAILY_LIMIT
         [] OTHER ->
                /\ users[uid].last_reset = Date(now)
                /\ Len(users[uid].completed_tasks) >= DAILY_LIMIT

\* C13: a claim call of a user who cannot earn today is answered
\* DailyLimitReached, grants no reward and leaves the balance as it was,
\* whatever attempts the user has running.
C13_ClaimAtLimitFails ==
    [][\A uid \in TaskUsers, task_key \in DOMAIN TASKS :
          (CannotEarnToday(uid) /\ ClaimCall(uid, task_key))
          => /\ ClaimReply(uid, task_key) = "DailyLimitReached"
             /\ claimed'[uid] = claimed[uid]
             /\ users'[uid].balance = users[uid].balance]_vars

\* A step of a handler that credits earnings: /start (referral bonus) or a
\* claim call (task reward).
CreditCall ==
    \/ \E uid \in UserIds, ref \in Referrers : start(uid, ref)
    \/ \E uid \in UserIds, ref \in Referrers : api_start(uid, ref)
    \/ \E uid \in TaskUsers, task_key \in TaskKeys : ClaimCall(uid, task_key)

\* C14: for a user whose last activity is dated before today, whatever the
\* daily counter holds, can_earn_today answers true, and a credit of amount
\* a to that user leaves the daily counter equal to a.
C14_DailyReset ==
    [][\A u \in DOMAIN users :
          CASE variant = "main" ->
                   Date(users[u].last_activity) < Date(now)
                   => /\ can_earn_today(users, u)
                      /\ (CreditCall
                          /\ users'[u].total_earned > users[u].total_earned)
                         => users'[u].daily_earned
                                = users'[u].total_earned
                                      - users[u].total_earned
            [] variant = "api" ->
                   Date(users[u].lastActivity) < Date(now)
                   => /\ api_can_earn_today(users[u])
                      /\ (CreditCall
                          /\ users'[u].totalEarned > users[u].totalEarned)
                         => users'[u].dailyEarned
                                = users'[u].totalEarned
                                      - users[u].totalEarned
            [] OTHER -> TRUE]_vars

\* C15: a claim call for a (user, task key) without a live attempt is
\* answered TaskNotStarted, grants no reward, records no attempt and leaves
\* the record of the user and the attempt table as they were.
C15_ClaimWithoutAttempt ==
    [][\A uid \in TaskUsers, task_key \in DOMAIN TASKS :
          (/\ uid \in DOMAIN users
           /\ <<uid, task_key>> \notin DOMAIN user_tasks
           /\ ClaimCall(uid, task_key))
          => /\ ClaimReply(uid, task_key) = "TaskNotStarted"
             /\ claimed'[uid] = claimed[uid]
             /\ user_tasks' = user_tasks
             /\ users'[uid] = users[uid]]_vars

\* C16: while the attempt of a (user, task key) is inside its wait, a
\* claim_task call is answered TaskStillWaiting, never TaskNotStarted, and
\* the remaining time it reports is wait - elapsed when a whole number of
\* seconds has elapsed; the call leaves the start time of the attempt, the
\* record of the user and the rewards granted as they were.
C16_ClaimDuringWait ==
    /\ [](\A uid \in TaskUsers, task_key \in TaskKeys, ok \in BOOLEAN :
            (/\ variant = "api"
             /\ <<uid, task_key>> \in DOMAIN user_tasks
             /\ now - user_tasks[<<uid, task_key>>] < required_wait(task_key))
            => /\ handle_task_claim_reply(uid, task_key, ok)
                      = "TaskStillWaiting"
               /\ (now - user_tasks[<<uid, task_key>>]) % Hz = 0
                  => TaskManager_get_remaining_time(uid, task_key) * Hz
                         = required_wait(task_key)
                               - (now - user_tasks[<<uid, task_key>>]))
    /\ [][\A uid \in TaskUsers, task_key \in TaskKeys, ok \in BOOLEAN :
            (/\ uid \in DOMAIN users
             /\ <<uid, task_key>> \in DOMAIN user_tasks
             /\ now - user_tasks[<<uid, task_key>>] < required_wait(task_key)
             /\ handle_task_claim(uid, task_key, ok))
            => /\ user_tasks' = user_tasks
               /\ users'[uid] = users[uid]
               /\ claimed' = claimed]_vars

\* A step of a handler that starts an attempt: the task button of
\* main (1).py and of bot.py, "task_<key>" and "confirm_task_<key>" of
\* bot (11).py.
StartCall(uid, task_key) ==
    \/ button_task(uid, task_key)
    \/ bot_task(uid, task_key)
    \/ handle_task_start(uid, task_key)
    \/ \E ok \in BOOLEAN : handle_task_confirm(uid, task_key, ok)

\* What the first start button answers in the current state.
StartReply(uid, task_key) ==
    CASE variant = "main" -> button_task_reply(uid, task_key)
      [] variant = "simple" ->
             bot_task_reply(reset_daily_tasks(bot_upsert(users, uid, None)),
                            uid, task_key)
      [] OTHER ->
             handle_task_start_reply(get_or_create_user(users, uid),
                                     uid, task_key)

\* The (user, task key) has a live attempt that is still inside its wait.
AttemptRunning(uid, task_key) ==
    /\ <<uid, task_key>> \in DOMAIN user_tasks
    /\ now - user_tasks[<<uid, task_key>>] < required_wait(task_key)

\* C17: while the attempt of a (user, task key) is inside its wait, the
\* start button answers that the attempt is already running (for a user who
\* can still earn today), and no start call, through any entry point,
\* changes the start time of the attempt.
C17_StartWhileRunning ==
    /\ [](\A uid \in TaskUsers, task_key \in DOMAIN TASKS :
            (AttemptRunning(uid, task_key) /\ ~CannotEarnToday(uid))
            => StartReply(uid, task_key) = "TaskInProgress")
    /\ [][\A uid \in TaskUsers, task_key \in DOMAIN TASKS :
            (AttemptRunning(uid, task_key) /\ StartCall(uid, task_key))
            => /\ <<uid, task_key>> \in DOMAIN user_tasks'
               /\ user_tasks'[<<uid, task_key>>]
                      = user_tasks[<<uid, task_key>>]]_vars

\* C18: a start call made while the attempt of the (user, task key) is
\* claimable (its wait has elapsed and it has not been claimed) leaves the
\* attempt and its start time in place and credits nothing.
C18_StartWhileClaimable ==
    [][\A uid \in TaskUsers, task_key \in DOMAIN TASKS :
          (/\ uid \in DOMAIN users
           /\ <<uid, task_key>> \in DOMAIN user_tasks
           /\ now - user_tasks[<<uid, task_key>>] >= required_wait(task_key)
           /\ StartCall(uid, task_key))
          => /\ <<uid, task_key>> \in DOMAIN user_tasks'
             /\ user_tasks'[<<uid, task_key>>] = user_tasks[<<uid, task_key>>]
             /\ claimed'[uid] = claimed[uid]
             /\ users'[uid].balance = users[uid].balance]_vars

\* The task key is not listed by the backend, or its task is not active.
UnknownTask(task_key) ==
    \/ task_key \notin DOMAIN api_tasks
    \/ ~api_tasks[task_key].isActive

\* C19: for a task key that is not in the registry or whose task is
\* inactive, "task_<key>" answers that the task is unknown (for a user who
\* can still earn today), and neither "task_<key>" nor "confirm_task_<key>"
\* records an attempt for the (user, task key).
C19_UnknownTaskNotStarted ==
    /\ [](\A uid \in TaskUsers, task_key \in api_TaskArgs :
            (variant = "api" /\ UnknownTask(task_key)
                             /\ ~CannotEarnToday(uid))
            => StartReply(uid, task_key) = "TaskNotFound")
    /\ [][\A uid \in TaskUsers, task_key \in api_TaskArgs :
            (/\ UnknownTask(task_key)
             /\ \/ handle_task_start(uid, task_key)
                \/ \E ok \in BOOLEAN : handle_task_confirm(uid, task_key, ok))
            => user_tasks' = user_tasks]_vars

\* get_remaining_time of the running program.
RemainingTime(uid, task_key) ==
    CASE variant = "main" -> get_remaining_time(uid, task_key)
      [] variant = "simple" -> bot_get_remaining_time(uid, task_key)
      [] OTHER -> TaskManager_get_remaining_time(uid, task_key)

\* C20: the remaining time of a (user, task key) is 0 when no attempt is
\* recorded for it, and otherwise the whole seconds of
\* max(0, wait - elapsed): the integer r >= 0 with
\* r <= max(0, wait - elapsed) < r + 1.
C20_RemainingTime ==
    \A uid \in TaskUsers, task_key \in DOMAIN TASKS :
        LET r == RemainingTime(uid, task_key)
        IN  IF <<uid, task_key>> \notin DOMAIN user_tasks THEN r = 0
            ELSE LET left == Max(0, required_wait(task_key)
                                      - (now - user_tasks[<<uid, task_key>>]))
                 IN  /\ r >= 0
                     /\ r * Hz <= left
                     /\ left < (r + 1) * Hz

C22_CreateAddsOneRequest ==
    [][\A uid \in PayoutUsers, address \in Addresses, suffix \in Suffixes :
          CreateStep(uid, address, suffix)
          => /\ Cardinality(DOMAIN payout_requests')
                    = Cardinality(DOMAIN payout_requests) + 1
             /\ \A id \in DOMAIN payout_requests :
                    /\ id \in DOMAIN payout_requests'
                    /\ payout_requests'[id] = payout_requests[id]]_vars

\* C23: a payout request or withdrawal is created only with an amount that
\* the balance of the user covers at that moment (balance >= amount); a
\* withdrawal message whose amount exceeds the balance is answered
\* InsufficientBalance and leaves the balance and the stored withdrawals as
\* they were.
C23_AmountCoveredByBalance ==
    /\ [](\A uid \in PayoutUsers, method \in Methods, text \in AmountTexts :
            (/\ variant = "simple"
             /\ uid \in DOMAIN users
             /\ float(text) # None
             /\ float_ge(float(text), bot_MIN_WITHDRAW[method])
             /\ float_lt(users[uid].balance, float(text)))
            => bot_handle_message_reply(uid, method, text)
                   = "InsufficientBalance")
    /\ [][/\ \A uid \in PayoutUsers, address \in Addresses,
               suffix \in Suffixes :
               CreateStep(uid, address, suffix)
               => /\ uid \in DOMAIN users
                  /\ users[uid].balance >= user_data[uid].payout_amount
          /\ \A uid \in PayoutUsers, method \in Methods,
               account \in Accounts, text \in AmountTexts :
               (uid \in DOMAIN users
                /\ bot_handle_message(uid, method, account, text))
               => /\ Len(withdrawals') > Len(withdrawals)
                     => float_ge(users[uid].balance, float(text))
                  /\ (/\ float(text) # None
                      /\ float_lt(users[uid].balance, float(text)))
                     => /\ withdrawals' = withdrawals
                        /\ users' = users]_vars

\* C24: while a payout is being entered, a message whose text is empty or
\* shorter than 5 characters is answered InvalidAddress, creates no request
\* and leaves the balance of every user as it was.
C24_InvalidAddressRejected ==
    /\ [](\A uid \in PayoutUsers, address \in Addresses :
            (/\ variant = "main"
             /\ user_data[uid] # NoData
             /\ Len(address) < MinAddressLen)
            => handle_payout_address_reply(uid, address) = "InvalidAddress")
    /\ [][\A uid \in PayoutUsers, address \in Addresses,
            suffix \in Suffixes :
            (/\ Len(address) < MinAddressLen
             /\ handle_payout_address(uid, address, suffix))
            => /\ payout_requests' = payout_requests
               /\ users' = users]_vars

\* C24 witness: a user with a positive balance has chosen a payout method,
\* so the next message is taken as the address.
C24_Witness ==
    \E uid \in PayoutUsers :
        /\ variant = "main"
        /\ user_data[uid] # NoData
        /\ uid \in DOMAIN users
        /\ users[uid].balance > 0

\* C25: /approve of a pending request by the admin sets its status to
\* approved and processed_at to the current time, and leaves the record of
\* every user (balance, total earned, daily earned) as it was.
C25_ApproveMovesNoMoney ==
    [][\A request_id \in DOMAIN payout_requests :
          (/\ payout_requests[request_id].status = "pending"
           /\ admin_approve(ADMIN_ID, request_id))
          => /\ payout_requests'[request_id].status = "approved"
             /\ payout_requests'[request_id].processed_at = now
             /\ users' = users]_vars

\* C25 witness: a request of a user who has earned money has been approved.
C25_Witness ==
    \E request_id \in DOMAIN payout_requests :
        /\ payout_requests[request_id].status = "approved"
        /\ payout_requests[request_id].amount > 0
        /\ payout_requests[request_id].user_id \in DOMAIN users
        /\ users[payout_requests[request_id].user_id].total_earned > 0

\* C26: after every handler of main (1).py and bot.py has returned, the
\* snapshot in data.json holds the users, the task attempts and the payout
\* requests that are in memory.
C26_SnapshotEqualsMemory ==
    variant \in {"main", "simple"}
    => /\ disk.users = users
       /\ disk.user_tasks = user_tasks
       /\ disk.payout_requests = payout_requests

\* C27: a reward payment during which the write to data.json fails leaves
\* the users, the attempts and the rewards granted in memory as they were
\* before the call.
C27_FailedWriteChangesNothing ==
    [][\A uid \in TaskUsers, task_key \in DOMAIN TASKS :
          (\/ button_task_write_fails(uid, task_key)
           \/ bot_verify_write_fails(uid, task_key))
          => /\ users' = users
             /\ user_tasks' = user_tasks
             /\ claimed' = claimed]_vars

\* The attempt of the (user, task key) is recorded and its wait has elapsed.
Claimable(uts, t, uid, task_key) ==
    /\ <<uid, task_key>> \in DOMAIN uts
    /\ t - uts[<<uid, task_key>>] >= required_wait(task_key)

\* C28: an attempt that is claimable stays recorded, with its start time,
\* and claimable in the next state, whatever time passes, unless the step
\* grants its reward and removes it or starts it again.
C28_AttemptNeverExpires ==
    [][\A uid \in TaskUsers, task_key \in DOMAIN TASKS :
          Claimable(user_tasks, now, uid, task_key)
          => \/ /\ Claimable(user_tasks', now', uid, task_key)
                /\ user_tasks'[<<uid, task_key>>]
                       = user_tasks[<<uid, task_key>>]
             \/ /\ <<uid, task_key>> \notin DOMAIN user_tasks'
                /\ claimed'[uid] = claimed[uid] + 1
             \/ /\ <<uid, task_key>> \in DOMAIN user_tasks'
                /\ user_tasks'[<<uid, task_key>>] = now']_vars

\* C29: a restart of the process (the last snapshot is read back) gives
\* the users, the task attempts with their start times and the payout
\* requests that were in memory before it.
C29_RestartRestoresState ==
    [][(load_data \/ bot_load_data \/ api_restart)
       => /\ users' = users
          /\ user_tasks' = user_tasks
          /\ payout_requests' = payout_requests]_vars

\* A step of a payout handler: a request is created, approved or rejected.
PayoutCall ==
    \/ \E uid \in PayoutUsers, address \in Addresses, suffix \in Suffixes :
           handle_payout_address(uid, address, suffix)
    \/ \E sender \in Senders, request_id \in RequestArgs :
           admin_approve(sender, request_id)
    \/ \E sender \in Senders, request_id \in RequestArgs, reason \in Reasons :
           admin_reject(sender, request_id, reason)

\* The total earned of a user record of main (1).py or of the backend.
total_earned(user) ==
    IF variant = "main" THEN user.total_earned ELSE user.totalEarned

\* C30: no step lowers the total earned of a user, and creating, approving
\* or rejecting a payout request leaves it as it was.
C30_TotalEarnedMonotone ==
    [][\A u \in DOMAIN users :
          variant \in {"main", "api"}
          => /\ u \in DOMAIN users'
             /\ \/ total_earned(users'[u]) = total_earned(users[u])
                \/ /\ total_earned(users'[u]) > total_earned(users[u])
                   /\ ~PayoutCall]_vars

\* C30 witness: a user who has earned money had a payout request created
\* and rejected, and has the balance back.
C30_Witness ==
    \E request_id \in DOMAIN payout_requests :
        LET req == payout_requests[request_id]
        IN  /\ req.status = "rejected"
            /\ req.user_id \in DOMAIN users
            /\ users[req.user_id].total_earned > 0
            /\ users[req.user_id].balance > 0

(***************************************************************************)
(* Claims about user records, isolation, the ledger and the limits.        *)
(***************************************************************************)
\* C31: get_user creates a record, with balance, total_earned, daily_earned,
\* tasks_completed and referrals all zero, only when the user id is absent,
\* and on a known user it changes nothing; no step changes the joined
\* stamp of a record or removes a record, and a record that appears in a
\* step is the zeroed record just created.
C31_GetUserCreatesOnce ==
    /\ [](variant = "main"
          => \A uid \in UserIds :
                LET us1 == get_user(users, uid)
                IN  IF uid \in DOMAIN users
                    THEN us1 = users
                    ELSE /\ DOMAIN us1 = DOMAIN users \cup {uid}
                         /\ \A u \in DOMAIN users : us1[u] = users[u]
                         /\ us1[uid].balance = 0
                         /\ us1[uid].total_earned = 0
                         /\ us1[uid].daily_earned = 0
                         /\ us1[uid].tasks_completed = 0
                         /\ us1[uid].referrals = 0
                         /\ us1[uid].joined = now)
    /\ [][variant = "main"
          => /\ \A u \in DOMAIN users :
                    /\ u \in DOMAIN users'
                    /\ users'[u].joined = users[u].joined
             /\ \A u \in DOMAIN users' \ DOMAIN users :
                    users'[u] = NewUser(now)]_vars

\* C31 witness: user 1 is known, joined earlier and has earned, while
\* user 2 has no record yet.
C31_Witness ==
    /\ variant = "main"
    /\ 1 \in DOMAIN users
    /\ 2 \notin DOMAIN users
    /\ users[1].balance > 0
    /\ users[1].joined < now

\* A step of a task start, a task claim or a payout creation made by uid.
UserCall(uid) ==
    \/ \E task_key \in DOMAIN TASKS \cup api_TaskArgs :
          \/ button_task(uid, task_key)
          \/ bot_task(uid, task_key)
          \/ bot_verify(uid, task_key)
          \/ handle_task_start(uid, task_key)
          \/ \E ok \in BOOLEAN : handle_task_confirm(uid, task_key, ok)
          \/ \E ok \in BOOLEAN : handle_task_claim(uid, task_key, ok)
    \/ \E address \in Addresses, suffix \in Suffixes :
          handle_payout_address(uid, address, suffix)
    \/ \E method \in Methods, account \in Accounts, text \in AmountTexts :
          bot_handle_message(uid, method, account, text)

\* The record, the attempts, the payout requests and the withdrawals of u
\* are the same before and after the step.
Untouched(u) ==
    /\ (u \in DOMAIN users) = (u \in DOMAIN users')
    /\ u \in DOMAIN users => users'[u] = users[u]
    /\ \A k \in DOMAIN user_tasks \cup DOMAIN user_tasks' :
          k[1] = u => /\ k \in DOMAIN user_tasks
                      /\ k \in DOMAIN user_tasks'
                      /\ user_tasks'[k] = user_tasks[k]
    /\ \A id \in DOMAIN payout_requests \cup DOMAIN payout_requests' :
          (\/ id \in DOMAIN payout_requests /\ payout_requests[id].user_id = u
           \/ id \in DOMAIN payout_requests' /\ payout_requests'[id].user_id = u)
          => /\ id \in DOMAIN payout_requests
             /\ id \in DOMAIN payout_requests'
             /\ payout_requests'[id] = payout_requests[id]
    /\ SelectSeq(withdrawals', LAMBDA w : w.uid = u)
           = SelectSeq(withdrawals, LAMBDA w : w.uid = u)

\* C32: a task start, a task claim or a payout creation made by one user,
\* whether it succeeds or fails, leaves the record, the attempts and the
\* payout requests of every other user as they were.
C32_IsolationPerUser ==
    [][\A uid \in UserIds :
          (users' # users /\ UserCall(uid))
          => \A u \in UserIds \ {uid} : Untouched(u)]_vars

\* The sum of the amounts of the requests of prs whose ids are in S.
RECURSIVE SumAmounts(_, _)
SumAmounts(prs, S) ==
    IF S = {} THEN 0
    ELSE LET id == CHOOSE x \in S : TRUE
         IN  prs[id].amount + SumAmounts(prs, S \ {id})

\* The amount the user has in pending and approved requests.
Requested(uid) ==
    SumAmounts(payout_requests,
               {id \in DOMAIN payout_requests :
                   /\ payout_requests[id].user_id = uid
                   /\ payout_requests[id].status \in {"pending", "approved"}})

\* C33: in every reachable state, for every user, the balance plus the
\* amounts of the pending and approved payout requests of the user equals
\* the total earned.
C33_LedgerConservation ==
    \A uid \in DOMAIN users :
        variant = "main"
        => users[uid].balance + Requested(uid) = users[uid].total_earned

\* C34: in every reachable state the balance of every user is at most the
\* total earned of that user, after any interleaving of credits, payout
\* creations, approvals and rejections.
C34_BalanceAtMostEarned ==
    \A uid \in DOMAIN users :
        variant = "main" => users[uid].balance <= users[uid].total_earned

\* C34 witness: a request of a positive amount was rejected and its user
\* holds again everything earned.
C34_Witness ==
    /\ variant = "main"
    /\ \E id \in DOMAIN payout_requests :
          /\ payout_requests[id].status = "rejected"
          /\ payout_requests[id].amount > 0
          /\ payout_requests[id].user_id \in DOMAIN users
          /\ users[payout_requests[id].user_id].balance
                 = users[payout_requests[id].user_id].total_earned

\* A pending request that the step has written to data.json.
NewOnDisk(id) ==
    /\ id \in DOMAIN disk'.payout_requests
    /\ disk'.payout_requests[id].status = "pending"
    /\ \/ id \notin DOMAIN disk.payout_requests
       \/ disk.payout_requests[id] # disk'.payout_requests[id]

\* C35: no snapshot written to data.json holds a pending request whose
\* amount has not been taken from the balance of its user in the same
\* snapshot, so that a restart from any snapshot followed by the reject of
\* the request leaves the user with no more balance than before the request.
C35_CreateAtomicOnDisk ==
    [][\A id \in DOMAIN disk'.payout_requests :
          (disk' # disk /\ NewOnDisk(id))
          => LET req == disk'.payout_requests[id]
                 u   == req.user_id
             IN  /\ u \in DOMAIN disk.users
                 /\ u \in DOMAIN disk'.users
                 /\ disk'.users[u].balance
                        <= disk.users[u].balance - req.amount
                 /\ reject_users(disk'.users, disk'.payout_requests,
                                 id)[u].balance
                        <= disk.users[u].balance]_vars

\* The daily counter of a user record of main (1).py or of the API bot.
daily_earned(user) ==
    IF variant = "main" THEN user.daily_earned ELSE user.dailyEarned

\* C36: right after a task claim that paid a reward r the daily counter of
\* the user is below the daily limit plus r, and no task claim pays a user
\* whose counter of the day has reached the daily limit.
C36_OvershootAtMostOneReward ==
    [][\A uid \in TaskUsers, task_key \in DOMAIN TASKS :
          (/\ variant \in {"main", "api"}
           /\ claimed'[uid] # claimed[uid]
           /\ ClaimCall(uid, task_key))
          => /\ daily_earned(users'[uid])
                    < DAILY_LIMIT + TASKS[task_key].reward
             /\ ~CannotEarnToday(uid)]_vars

C38_FailedStartRecordsNothing ==
    [][\A uid \in TaskUsers, task_key \in api_TaskArgs :
          handle_task_confirm(uid, task_key, FALSE)
          => user_tasks' = user_tasks]_vars

\* A /start step of uid that names ref as the referrer.
StartWithRef(uid, ref) ==
    \/ start(uid, ref)
    \/ bot_start(uid, ref)
    \/ api_start(uid, ref)

\* The balance of u in the users map us, 0 for a user without a record.
BalanceIn(us, u) == IF u \in DOMAIN us THEN us[u].balance ELSE 0

\* The referrals counter of u in us (main (1).py and the API bot).
ReferralsIn(us, u) ==
    IF u \in DOMAIN us /\ variant # "simple" THEN us[u].referrals ELSE 0

\* C39: a /start with a referrer changes the balance and the referrals
\* counter of nobody but the referrer, and only of a referrer who had a
\* record before the call and is not the caller; it creates no record but
\* that of the caller.
C39_ReferralOnlyToOthers ==
    [][\A uid \in UserIds, ref \in Referrers :
          StartWithRef(uid, ref)
          => /\ DOMAIN users' \subseteq DOMAIN users \cup {uid}
             /\ \A u \in DOMAIN users' :
                   (\/ BalanceIn(users', u) # BalanceIn(users, u)
                    \/ ReferralsIn(users', u) # ReferralsIn(users, u))
                   => /\ u = ref
                      /\ u # uid
                      /\ u \in DOMAIN users]_vars

====
